---- MODULE Spec2Model ----
(***************************************************************************)
(* A model of src/main.py: keyword-driven retrieval of stock videos.       *)
(*                                                                         *)
(* Python str values are sequences of one-character strings, so that       *)
(* lower(), split(), strip() and the substring test are computed, not      *)
(* assumed.  A Python dict with string keys is a TLA+ record; a value      *)
(* whose Python type the code does not control (a decoded JSON body) is a  *)
(* tagged record [t |-> type, v |-> value].                                *)
(***************************************************************************)
EXTENDS Integers, Sequences, FiniteSets, TLC

VARIABLES
    API_KEY,        \* module global read from the environment (line 38)
    rng,            \* state of the `random` module's generator
    sentences,      \* sent_tokenize(script): the sentences of the script
    sort_by,        \* argument of fetch_and_sort_videos, set where it is read
    max_results,    \* argument of fetch_and_sort_videos
    all_keywords,   \* local of fetch_and_sort_videos
    all_videos,     \* local of fetch_and_sort_videos
    keywords,       \* local of fetch_and_sort_videos: keywords of the sentence
    si,             \* number of sentences the outer for loop has taken
    ki,             \* number of keywords the inner for loop has taken
    page,           \* local of fetch_and_sort_videos
    pc,             \* position in the function being executed
    last_call,      \* the adapter call issued last (logger.info, line 105/129)
    ended,          \* the keywords whose pagination an empty page has ended
    extracted,      \* number of extract_keywords calls made (line 188)
    args,           \* arguments of a directly called function
    ret             \* value returned (or exception raised) by the call

vars == <<API_KEY, rng, sentences, sort_by, max_results, all_keywords,
          all_videos, keywords, si, ki, page, pc, last_call, ended, extracted,
          args, ret>>

orchVars == <<API_KEY, rng, sentences, sort_by, max_results, all_keywords,
              all_videos, keywords, si, ki, page, last_call, ended, extracted>>

-----------------------------------------------------------------------------
(* Python str operations                                                   *)

UpperCase == <<"A","B","C","D","E","F","G","H","I","J","K","L","M",
               "N","O","P","Q","R","S","T","U","V","W","X","Y","Z">>
LowerCase == <<"a","b","c","d","e","f","g","h","i","j","k","l","m",
               "n","o","p","q","r","s","t","u","v","w","x","y","z">>

Whitespace == {" ", "\t", "\n", "\r"}

\* the lowercase letter of each uppercase letter
ToLower == [c \in {UpperCase[i] : i \in 1..26} |->
               LowerCase[CHOOSE i \in 1..26 : UpperCase[i] = c]]

\* str.lower() on one character
LowerChar(c) == IF c \in DOMAIN ToLower THEN ToLower[c] ELSE c

\* str.lower()
Lower(s) == [i \in 1..Len(s) |-> LowerChar(s[i])] \o <<>>

\* the `needle in hay` test of two str values
Contains(needle, hay) ==
    \E i \in 0..(Len(hay) - Len(needle)) :
        \A k \in 1..Len(needle) : hay[i + k] = needle[k]

\* str.split() with no separator: maximal runs of non-whitespace characters
RECURSIVE SplitFrom(_, _, _)
SplitFrom(s, i, word) ==
    IF i > Len(s)
    THEN IF word = <<>> THEN <<>> ELSE <<word>>
    ELSE IF s[i] \in Whitespace
         THEN IF word = <<>>
              THEN SplitFrom(s, i + 1, <<>>)
              ELSE <<word>> \o SplitFrom(s, i + 1, <<>>)
         ELSE SplitFrom(s, i + 1, Append(word, s[i]))

Split(s) == SplitFrom(s, 1, <<>>)

\* str.strip() with no argument
RECURSIVE Strip(_)
Strip(s) ==
    IF s = <<>> THEN s
    ELSE IF s[1] \in Whitespace THEN Strip(Tail(s))
    ELSE IF s[Len(s)] \in Whitespace THEN Strip(SubSeq(s, 1, Len(s) - 1))
    ELSE s

\* " ".join(list)
RECURSIVE Join(_)
Join(list) ==
    IF list = <<>> THEN <<>>
    ELSE IF Len(list) = 1 THEN list[1]
    ELSE list[1] \o <<" ">> \o Join(Tail(list))

\* str(i) for an int i >= 0
Digits == <<"0","1","2","3","4","5","6","7","8","9">>
RECURSIVE StrOfInt(_)
StrOfInt(i) ==
    IF i < 10 THEN <<Digits[i + 1]>>
    ELSE StrOfInt(i \div 10) \o <<Digits[(i % 10) + 1]>>

\* sum(flag for word in words): the number of words for which Test holds
Count(words, Test(_)) == Cardinality({i \in 1..Len(words) : Test(words[i])})

\* dict.get(key, default) on a dict with str keys
Get(d, key, default) == IF key \in DOMAIN d THEN d[key] ELSE default

-----------------------------------------------------------------------------
(* calculate_relevance, lines 159-169.  Scores are kept in tenths, so the  *)
(* weights 0.6 and 0.4 are the integers 6 and 4.                           *)

title_weight == 6
description_weight == 4

\* the match test that drops lower() on the word: "Dog" no longer matches "dog"
WordMatchesCaseSensitive(query, word) == Contains(Lower(query), word)

\* query.lower() in word.lower()
WordMatches(query, word) == Contains(Lower(query), Lower(word))

calculate_relevance(video, query) ==
    LET title_relevance ==
            Count(Split(Get(video, "title", <<>>)),
                  LAMBDA word : WordMatches(query, word))
        description_relevance ==
            Count(Split(Get(video, "description", <<>>)),
                  LAMBDA word : WordMatches(query, word))
    IN (title_relevance * title_weight)
        + (description_relevance * description_weight)

-----------------------------------------------------------------------------
(* sorted(iterable, key=..., reverse=...): a stable sort; with reverse the *)
(* list is reversed, sorted stably and reversed again, which keeps equal   *)
(* keys in their input order.  xs and ks are parallel: ks[i] is the key of *)
(* xs[i].                                                                  *)

Reverse(s) == [i \in 1..Len(s) |-> s[Len(s) + 1 - i]]

\* positions 1..n of the input in ascending key order, ties in input order
RECURSIVE StableOrder(_, _)
StableOrder(ks, n) ==
    IF n = 0 THEN <<>>
    ELSE LET prev == StableOrder(ks, n - 1)
             \* the new element goes after every element whose key is <= its key
             at == Cardinality({j \in 1..Len(prev) : ks[prev[j]] <= ks[n]})
         IN SubSeq(prev, 1, at) \o <<n>> \o SubSeq(prev, at + 1, Len(prev))

\* a descending sort that sorts ascending and reverses the result only
SortedReversedOnce(xs, ks, reverse) ==
    LET order == StableOrder(ks, Len(ks))
        out == [i \in 1..Len(xs) |-> xs[order[i]]]
    IN IF reverse THEN Reverse(out) ELSE out

Sorted(xs, ks, reverse) ==
    IF reverse
    THEN LET rks == Reverse(ks)
             rxs == Reverse(xs)
             order == StableOrder(rks, Len(rks))
         IN Reverse([i \in 1..Len(xs) |-> rxs[order[i]]])
    ELSE LET order == StableOrder(ks, Len(ks))
         IN [i \in 1..Len(xs) |-> xs[order[i]]]

\* the list of keys `key=lambda x: ...` yields, one per video
KeysOf(videos, Key(_)) == [i \in 1..Len(videos) |-> Key(videos[i])] \o <<>>

\* sort_videos, lines 142-157
sort_videos(videos, sortBy, query) ==
    IF sortBy = "duration"
    THEN Sorted(videos, KeysOf(videos, LAMBDA x : x.duration), FALSE)
    ELSE IF sortBy = "width"
    THEN Sorted(videos, KeysOf(videos, LAMBDA x : x.width), TRUE)
    ELSE IF sortBy = "height"
    THEN Sorted(videos, KeysOf(videos, LAMBDA x : x.height), TRUE)
    ELSE IF sortBy = "relevance"
    THEN Sorted(videos,
                KeysOf(videos, LAMBDA x : calculate_relevance(x, query)), TRUE)
    ELSE Sorted(videos,
                KeysOf(videos, LAMBDA x : calculate_relevance(x, query)), TRUE)

-----------------------------------------------------------------------------
(* The remote provider and fetch_videos, lines 80-123.                     *)
(*                                                                         *)
(* An outcome of requests.get is an exception of the transport, or a       *)
(* response [status, json, body]: json says whether the body decodes, and  *)
(* body is the decoded value, tagged with its Python type:                 *)
(*   "null" | "num" | "str" (v a str) | "list" (v a sequence of tagged     *)
(*   values) | "obj" (v a dict)                                            *)

Null == [t |-> "null"]
Num(n) == [t |-> "num", v |-> n]
Str(s) == [t |-> "str", v |-> s]
List(l) == [t |-> "list", v |-> l]
Obj(d) == [t |-> "obj", v |-> d]
EmptyDict == <<>>

Raise(e) == [kind |-> "raise", exc |-> e]
Return(v) == [kind |-> "return", value |-> v]

\* the characters of the dict keys the code tests with `in`
KeyChars == [videos   |-> <<"v","i","d","e","o","s">>,
             id       |-> <<"i","d">>,
             duration |-> <<"d","u","r","a","t","i","o","n">>,
             width    |-> <<"w","i","d","t","h">>,
             height   |-> <<"h","e","i","g","h","t">>]

\* `key in x` for a str key: a dict tests its keys, a list its elements, a
\* str its substrings; any other type raises TypeError (IsContainer is false)
IsContainer(x) == x.t \in {"obj", "list", "str"}

HasItem(x, key) ==
    IF x.t = "obj" THEN key \in DOMAIN x.v
    ELSE IF x.t = "list"
    THEN \E i \in 1..Len(x.v) : x.v[i].t = "str" /\ x.v[i].v = KeyChars[key]
    ELSE Contains(KeyChars[key], x.v)

required_keys == <<"id", "duration", "width", "height">>

\* lines 89-91 for one element: "ok", or the exception it raises
ValidateVideo(video) ==
    IF ~IsContainer(video) THEN "TypeError"
    ELSE IF \A k \in 1..Len(required_keys) : HasItem(video, required_keys[k])
    THEN "ok"
    ELSE "ValueError"

\* validate_api_response, lines 80-91: "ok", or the exception it raises
validate_api_response(response) ==
    IF ~IsContainer(response) THEN "TypeError"          \* line 84, `in` on a non-container
    ELSE IF ~HasItem(response, "videos") THEN "ValueError"
    ELSE IF response.t # "obj" THEN "TypeError"         \* line 86, response["videos"]
    ELSE IF response.v.videos.t # "list" THEN "ValueError"
    ELSE LET vs == response.v.videos.v
             bad == {i \in 1..Len(vs) : ValidateVideo(vs[i]) # "ok"}
         IN IF bad = {} THEN "ok"
            ELSE ValidateVideo(vs[CHOOSE i \in bad : \A j \in bad : i <= j])

\* lines 113-114 for one element: "ok", or the exception it raises
EnrichFails(video) ==
    \/ video.t # "obj"                                  \* video.get on a list or a str
    \/ Get(video.v, "user", Obj(EmptyDict)).t # "obj"   \* .get on the 'user' value

Enrich(video) ==
    LET d == video.v
        title == Get(Get(d, "user", Obj(EmptyDict)).v, "name", <<>>)
        description == Get(d, "url", <<>>)
    IN [k \in DOMAIN d \cup {"title", "description"} |->
            IF k = "title" THEN title
            ELSE IF k = "description" THEN description
            ELSE d[k]]

\* the except clauses of lines 118-123
Caught == {"RequestException", "ConnectionError", "Timeout", "HTTPError",
           "JSONDecodeError", "ValueError"}

\* the body of the try block, lines 105-117
FetchBody(outcome) ==
    IF outcome.kind # "response" THEN Raise(outcome.kind)          \* line 106
    ELSE IF outcome.status >= 400 /\ outcome.status < 600
    THEN Raise("HTTPError")                                          \* line 107
    ELSE IF ~outcome.json THEN Raise("JSONDecodeError")              \* line 108
    ELSE LET data == outcome.body
             verdict == validate_api_response(data)
         IN IF verdict # "ok" THEN Raise(verdict)                    \* line 109
            ELSE LET vs == data.v.videos.v
                 IN IF \E i \in 1..Len(vs) : EnrichFails(vs[i])
                    THEN Raise("AttributeError")                     \* lines 113-114
                    ELSE Return([k \in DOMAIN data.v |->
                                    IF k = "videos"
                                    THEN [i \in 1..Len(vs) |-> Enrich(vs[i])]
                                    ELSE data.v[k]])

\* fetch_videos, lines 93-123
fetch_videos(query, per_page, pageNo, outcome) ==
    LET r == FetchBody(outcome)
    IN IF r.kind = "raise" /\ r.exc \in Caught
       THEN Return([videos |-> <<>>])
       ELSE r

-----------------------------------------------------------------------------
(* mock_fetch_videos, lines 125-140.  The `random` module is a             *)
(* deterministic generator with hidden state, seeded when the process      *)
(* starts: rng is that state, and every draw advances it.                  *)

RngNext(s) == (s * 75 + 74) % 65537

\* random.randint(a, b): the value drawn from state s
RandInt(a, b, s) == a + (RngNext(s) % (b - a + 1))

\* random.choice(seq): the element drawn from state s
Choice(seq, s) == seq[1 + (RngNext(s) % Len(seq))]

MinDuration == 5
MaxDuration == 60
Widths == <<1280, 1920, 3840>>
Heights == <<720, 1080, 2160>>

S_MockVideo == <<"M","o","c","k"," ","V","i","d","e","o"," ">>
S_About == <<" ","a","b","o","u","t"," ">>
S_ThisIs == <<"T","h","i","s"," ","i","s"," ","a"," ","m","o","c","k"," ",
              "v","i","d","e","o"," ","d","e","s","c","r","i","p","t","i","o","n",
              " ","f","o","r"," ">>
S_Content == <<" ","c","o","n","t","e","n","t","."," ","V","i","d","e","o"," ",
               "n","u","m","b","e","r"," ">>

\* the dict of lines 131-138 for index i, drawn from generator state s; the
\* three draws are made in the order the dict display lists them
MockVideo(query, i, s) ==
    LET s1 == RngNext(s)
        s2 == RngNext(s1)
    IN [id          |-> i,
        duration    |-> RandInt(MinDuration, MaxDuration, s),
        width       |-> Choice(Widths, s1),
        height      |-> Choice(Heights, s2),
        title       |-> S_MockVideo \o StrOfInt(i) \o S_About \o query,
        description |-> S_ThisIs \o query \o S_Content \o StrOfInt(i) \o <<".">>]

\* the list comprehension over range(per_page), from index i on
RECURSIVE MockVideos(_, _, _, _)
MockVideos(query, i, per_page, s) ==
    IF i >= per_page THEN [videos |-> <<>>, rng |-> s]
    ELSE LET rest == MockVideos(query, i + 1, per_page,
                                RngNext(RngNext(RngNext(s))))
         IN [videos |-> <<MockVideo(query, i, s)>> \o rest.videos,
             rng |-> rest.rng]

\* mock_fetch_videos: the value returned and the generator state it leaves
mock_fetch_videos(query, per_page, pageNo, s) ==
    LET m == MockVideos(query, 0, per_page, s)
    IN [result |-> Return([videos |-> m.videos]), rng |-> m.rng]

-----------------------------------------------------------------------------
(* Sample inputs: words, remote outcomes.                                  *)

W_dog == <<"d","o","g">>
W_cat == <<"c","a","t">>
Words == {W_dog, W_cat}

S_DogFan == <<"D","o","g"," ","F","a","n">>
S_CatFan == <<"C","a","t"," ","F","a","n">>
S_UrlDog == <<"u","/","d","o","g">>
S_UrlCat == <<"u","/","c","a","t">>
S_AllKeys == <<"i","d"," ","d","u","r","a","t","i","o","n"," ",
               "w","i","d","t","h"," ","h","e","i","g","h","t">>
S_NoVideos == <<"n","o"," ","v","i","d","e","o","s">>

V_cat == [id |-> 7, duration |-> 30, width |-> 1920, height |-> 1080,
          url |-> S_UrlCat, user |-> Obj([name |-> S_CatFan])]
V_dog == [id |-> 8, duration |-> 12, width |-> 1280, height |-> 720,
          url |-> S_UrlDog, user |-> Obj([name |-> S_DogFan])]
V_anon == [id |-> 9, duration |-> 12, width |-> 3840, height |-> 2160]
V_noDuration == [id |-> 7, width |-> 1920, height |-> 1080]
V_userNull == [id |-> 7, duration |-> 30, width |-> 1920, height |-> 1080,
               user |-> Null]
V_userStr == [id |-> 7, duration |-> 30, width |-> 1920, height |-> 1080,
              user |-> Str(S_CatFan)]

Response(body) == [kind |-> "response", status |-> 200, json |-> TRUE,
                   body |-> body]
Videos(list) == Response(Obj([videos |-> List(list), page |-> Num(1)]))

\* a provider that honours per_page: a full page of well-formed records
RECURSIVE FullPageFrom(_, _)
FullPageFrom(i, per_page) ==
    IF i >= per_page THEN <<>>
    ELSE <<Obj([id |-> 100 + i, duration |-> 5 + ((i * 17) % 56),
                width |-> Widths[1 + (i % 3)], height |-> Heights[1 + (i % 3)],
                url |-> IF i % 2 = 0 THEN S_UrlDog ELSE S_UrlCat,
                user |-> Obj([name |-> IF i % 2 = 0 THEN S_CatFan ELSE S_DogFan])])>>
         \o FullPageFrom(i + 1, per_page)

FullPage(per_page) == Videos(FullPageFrom(0, per_page))

\* a provider that sizes its pages itself: fewer records than a large
\* request asks for, and two records when one is asked for
ShortPage(per_page) == Videos(FullPageFrom(0, (per_page + 3) \div 2))

\* a page of two records, whatever per_page was
TwoVideos == Videos(<<Obj(V_cat), Obj(V_dog)>>)
MissingDuration == Videos(<<Obj(V_cat), Obj(V_noDuration)>>)
ElementNotObject == Videos(<<Num(5)>>)
ConnectionError == [kind |-> "ConnectionError"]

\* transport failures and bodies of every shape the validation distinguishes
FailureOutcomes ==
    << ConnectionError,
       [kind |-> "Timeout"],
       [kind |-> "response", status |-> 404, json |-> TRUE, body |-> Obj(EmptyDict)],
       [kind |-> "response", status |-> 500, json |-> FALSE, body |-> Null],
       [kind |-> "response", status |-> 200, json |-> FALSE, body |-> Null],
       Response(Obj(EmptyDict)),
       Response(Obj([error |-> Str(S_NoVideos)])),
       Response(List(<<>>)),
       Response(Str(S_DogFan)),
       Response(Obj([videos |-> Null])),
       Response(Obj([videos |-> Obj(EmptyDict)])),
       Response(Obj([videos |-> Str(S_NoVideos)])),
       Videos(<<Obj(V_noDuration)>>),
       MissingDuration,
       Videos(<<Obj(EmptyDict)>>),
       Videos(<<List(<<>>)>>),
       Videos(<<Str(S_DogFan)>>) >>

\* bodies that are JSON but not of the documented types
IllTypedOutcomes ==
    << Response(Null),
       Response(Num(5)),
       Response(Str(S_NoVideos)),
       Response(List(<<Str(KeyChars.videos)>>)),
       ElementNotObject,
       Videos(<<Null>>),
       Videos(<<Obj(V_cat), Num(5)>>),
       Videos(<<Str(S_AllKeys)>>),
       Videos(<<List(<<Str(KeyChars.id), Str(KeyChars.duration),
                       Str(KeyChars.width), Str(KeyChars.height)>>)>>),
       Videos(<<Obj(V_userNull)>>),
       Videos(<<Obj(V_userStr)>>) >>

WellFormedOutcomes ==
    << Videos(<<>>),
       Videos(<<Obj(V_anon)>>),
       Videos(<<Obj(V_dog)>>),
       TwoVideos >>

\* what the remote may answer to one request for per_page records
Outcomes(per_page) ==
    FailureOutcomes \o IllTypedOutcomes \o WellFormedOutcomes
        \o <<FullPage(per_page)>>

\* the answers the pipeline is driven with: one of each kind of result
PipelineOutcomes(per_page) ==
    <<ConnectionError, MissingDuration, ElementNotObject, ShortPage(per_page),
      FullPage(per_page)>>

-----------------------------------------------------------------------------
(* fetch_and_sort_videos, lines 171-216                                    *)

NumSeeds == 2        \* generator states the process may start from
MaxSentences == 2    \* sentences of a script
SmallQuota == 3      \* max_results is -1..SmallQuota, or just over the page cap
MaxPages == 24       \* pages one keyword is followed for

PageCap == 15

Range(f) == {f[i] : i \in DOMAIN f}
Min(a, b) == IF a <= b THEN a ELSE b

\* list(set(...)): the distinct elements, in an order the set decides
Orderings(S) == {o \in [1..Cardinality(S) -> S] : Range(o) = S}

\* extract_keywords, lines 45-70, of one sentence.  The tokenizer, stopword
\* list and tagger are NLTK's; a sentence is given by the set of nouns and
\* verbs they leave (line 70, set(all_keywords)), and the function returns
\* them as a list.
extract_keywords(sentence) == Orderings(sentence)

\* line 184: `not API_KEY or API_KEY.strip() == ""`
UseMock(key) == key.t = "null" \/ key.v = <<>> \/ Strip(key.v) = <<>>

\* a request that ignores the remaining quota
PerPageIgnoringQuota(collected, maxResults) == PageCap

\* a request that ignores the provider's page cap
PerPageUncapped(collected, maxResults) == maxResults - collected

\* line 195: min(max_results - len(all_videos), 15)
PerPage(collected, maxResults) == Min(maxResults - collected, PageCap)

\* line 194: the while condition
WhileCond(collected, maxResults) == collected < maxResults

\* an empty page that does not end the pagination
NoVideosNever(videos) == FALSE

\* line 198: `if not videos`
NoVideos(videos) == videos = <<>>

\* a quota test that lets an exactly full collection through
QuotaExceeded(collected, maxResults) == collected > maxResults

\* lines 205 and 208: `if len(all_videos) >= max_results`
QuotaReached(collected, maxResults) == collected >= maxResults

\* a ranker query made of the first keyword alone
QueryContextFirst(kws) == IF kws = <<>> THEN <<>> ELSE kws[1]

\* line 214: " ".join(all_keywords)
QueryContext(kws) == Join(kws)

Credentials == <<Null, Str(<<>>), Str(<<" ", "\t">>), Str(<<"k","e","y">>)>>
SortKeys == {"duration", "width", "height", "relevance", "views"}
MaxResultsValues == (-1..SmallQuota) \cup {PageCap + 1}
Scripts == UNION {[1..n -> SUBSET Words] : n \in 0..MaxSentences}

NoCall == [result |-> "none"]

Init ==
    /\ \E c \in 1..Len(Credentials) : API_KEY = Credentials[c]
    \* the generator is read in mock mode alone: elsewhere one state stands
    \* for all
    /\ rng \in IF UseMock(API_KEY) THEN 0..(NumSeeds - 1) ELSE {0}
    /\ sentences \in Scripts
    /\ sort_by = "relevance"          \* the parameter's default, line 171
    /\ max_results \in MaxResultsValues
    /\ all_keywords = <<>>
    /\ all_videos = <<>>
    /\ keywords = <<>>
    /\ si = 0
    /\ ki = 0
    /\ page = 0
    /\ pc = "for_sentence"
    /\ last_call = NoCall
    /\ ended = {}
    /\ extracted = 0
    /\ args = NoCall
    /\ ret = NoCall

\* line 187, the outer for: take the next sentence (lines 188-190), or fall
\* out of the loop to line 211
ForSentence ==
    /\ pc = "for_sentence"
    /\ IF si < Len(sentences)
       THEN \E kws \in extract_keywords(sentences[si + 1]) :
              /\ si' = si + 1
              /\ keywords' = kws
              /\ all_keywords' = all_keywords \o kws
              /\ extracted' = extracted + 1
              /\ ki' = 0
              /\ pc' = "for_keyword"
       ELSE /\ pc' = "sort"
            /\ UNCHANGED <<si, keywords, all_keywords, extracted, ki>>
    /\ UNCHANGED <<API_KEY, rng, sentences, sort_by, max_results, all_videos,
                   page, last_call, ended, args, ret>>

\* line 192, the inner for: take the next keyword and set page = 1 (line
\* 193), or fall out of the loop to line 208
ForKeyword ==
    /\ pc = "for_keyword"
    /\ IF ki < Len(keywords)
       THEN /\ ki' = ki + 1
            /\ page' = 1
            /\ pc' = "while"
       ELSE /\ pc' = "after_keywords"
            /\ UNCHANGED <<ki, page>>
    /\ UNCHANGED <<API_KEY, rng, sentences, sort_by, max_results, all_keywords,
                   all_videos, keywords, si, last_call, ended, extracted, args,
                   ret>>

\* the adapter call of line 195: the value returned or exception raised,
\* and the generator state left
FetchResults(keyword, per_page) ==
    IF UseMock(API_KEY)
    THEN {mock_fetch_videos(keyword, per_page, page, rng)}
    ELSE {[result |-> fetch_videos(keyword, per_page, page,
                                   PipelineOutcomes(per_page)[o]),
           rng |-> rng] : o \in 1..Len(PipelineOutcomes(per_page))}

\* lines 194-203, one iteration of the while loop with the condition true
WhileFetch ==
    /\ pc = "while"
    /\ WhileCond(Len(all_videos), max_results)
    /\ page <= MaxPages
    /\ LET keyword == keywords[ki]
           per_page == PerPage(Len(all_videos), max_results)
       IN \E f \in FetchResults(keyword, per_page) :
            LET videos == IF f.result.kind = "return"
                          THEN Get(f.result.value, "videos", <<>>)
                          ELSE <<>>
                call == [keyword |-> keyword, per_page |-> per_page,
                         page |-> page, collected |-> Len(all_videos),
                         sentence |-> si, index |-> ki,
                         result |-> IF f.result.kind = "raise" THEN "raise"
                                    ELSE IF videos = <<>> THEN "empty"
                                    ELSE "videos"]
            IN /\ last_call' = call
               /\ ended' = IF call.result = "empty"
                           THEN ended \cup {keyword} ELSE ended
               /\ rng' = f.rng
               /\ IF f.result.kind = "raise"
                  THEN /\ pc' = "raised"
                       /\ ret' = f.result
                       /\ UNCHANGED <<all_videos, page>>
                  ELSE IF NoVideos(videos)
                  THEN /\ pc' = "after_while"                  \* break, line 200
                       /\ UNCHANGED <<all_videos, page, ret>>
                  ELSE /\ all_videos' = all_videos \o videos   \* line 202
                       /\ page' = page + 1                     \* line 203
                       /\ pc' = "while"
                       /\ UNCHANGED ret
    /\ UNCHANGED <<API_KEY, sentences, sort_by, max_results, all_keywords,
                   keywords, si, ki, extracted, args>>

\* line 194 with the condition false
WhileExit ==
    /\ pc = "while"
    /\ ~WhileCond(Len(all_videos), max_results)
    /\ pc' = "after_while"
    /\ UNCHANGED <<orchVars, args, ret>>

\* lines 205-206
AfterWhile ==
    /\ pc = "after_while"
    /\ pc' = IF QuotaReached(Len(all_videos), max_results)
             THEN "after_keywords" ELSE "for_keyword"
    /\ UNCHANGED <<orchVars, args, ret>>

\* lines 208-209
AfterKeywords ==
    /\ pc = "after_keywords"
    /\ pc' = IF QuotaReached(Len(all_videos), max_results)
             THEN "sort" ELSE "for_sentence"
    /\ UNCHANGED <<orchVars, args, ret>>

\* lines 211-216.  sort_by is not read before line 214: the caller's value
\* is drawn here.
SortAndReturn ==
    /\ pc = "sort"
    /\ \E kws \in Orderings(Range(all_keywords)), sortBy \in SortKeys :
         /\ all_keywords' = kws
         /\ sort_by' = sortBy
         /\ ret' = Return(sort_videos(all_videos, sortBy, QueryContext(kws)))
    /\ pc' = "done"
    /\ UNCHANGED <<API_KEY, rng, sentences, max_results, all_videos,
                   keywords, si, ki, page, last_call, ended, extracted, args>>

Next ==
    \/ ForSentence
    \/ ForKeyword
    \/ WhileFetch
    \/ WhileExit
    \/ AfterWhile
    \/ AfterKeywords
    \/ SortAndReturn

Spec == Init /\ [][Next]_vars

-----------------------------------------------------------------------------
(* Direct calls of the adapter, the mock, the ranker and the scorer: args  *)
(* holds the arguments, ret the value returned or the exception raised.    *)

MaxPerPage == 3      \* per_page of a direct adapter call
MaxPageNo == 2       \* page of a direct adapter call
NumMockSeeds == 8    \* generator states a direct mock call may start from
MaxVideos == 3       \* videos handed to a direct sort_videos call
MaxTitleLen == 3     \* characters of a title handed to calculate_relevance
MaxTextLen == 2      \* characters of a description or a query

\* the pipeline is not running
Idle ==
    /\ API_KEY = Null
    /\ sentences = <<>>
    /\ sort_by = "relevance"
    /\ max_results = 0
    /\ all_keywords = <<>>
    /\ all_videos = <<>>
    /\ keywords = <<>>
    /\ si = 0
    /\ ki = 0
    /\ page = 0
    /\ last_call = NoCall
    /\ ended = {}
    /\ extracted = 0
    /\ ret = NoCall

idleVars == <<API_KEY, sentences, sort_by, max_results, all_keywords,
              all_videos, keywords, si, ki, page, last_call, ended, extracted>>

\* fetch_videos(query, per_page, page) against one outcome of the request
InitFetch ==
    /\ Idle
    /\ rng = 0
    /\ pc = "call"
    /\ \E q \in Words, n \in 1..MaxPerPage, pg \in 1..MaxPageNo :
         \E o \in 1..Len(Outcomes(n)) :
            args = [query |-> q, per_page |-> n, page |-> pg,
                    outcome |-> Outcomes(n)[o]]

CallFetch ==
    /\ pc = "call"
    /\ ret' = fetch_videos(args.query, args.per_page, args.page, args.outcome)
    /\ pc' = "return"
    /\ UNCHANGED <<idleVars, rng, args>>

SpecFetch == InitFetch /\ [][CallFetch]_vars

\* mock_fetch_videos(query, per_page, page)
InitMock ==
    /\ Idle
    /\ rng \in 0..(NumMockSeeds - 1)
    /\ pc = "call"
    /\ \E q \in Words, n \in 0..MaxPerPage, pg \in 1..MaxPageNo :
         args = [query |-> q, per_page |-> n, page |-> pg]

CallMock ==
    /\ pc = "call"
    /\ LET m == mock_fetch_videos(args.query, args.per_page, args.page, rng)
       IN /\ ret' = m.result
          /\ rng' = m.rng
    /\ pc' = "return"
    /\ UNCHANGED <<idleVars, args>>

SpecMock == InitMock /\ [][CallMock]_vars

\* sort_videos(videos, sort_by, query); the id of a video is its position
\* in the input
VideoShapes ==
    {[duration |-> d, width |-> w, height |-> h,
      title |-> IF w = 1280 THEN S_DogFan ELSE S_CatFan,
      description |-> IF h = 720 THEN S_UrlDog ELSE S_UrlCat] :
        d \in {MinDuration, 30}, w \in {1280, 1920}, h \in {720, 1080}}

WithId(shape, i) ==
    [id |-> i, duration |-> shape.duration, width |-> shape.width,
     height |-> shape.height, title |-> shape.title,
     description |-> shape.description]

InitSort ==
    /\ Idle
    /\ rng = 0
    /\ pc = "call"
    /\ \E n \in 0..MaxVideos, key \in SortKeys :
         \E shapes \in [1..n -> VideoShapes] :
            args = [videos |-> [i \in 1..n |-> WithId(shapes[i], i)],
                    sort_by |-> key, query |-> W_dog]

CallSort ==
    /\ pc = "call"
    /\ ret' = sort_videos(args.videos, args.sort_by, args.query)
    /\ pc' = "return"
    /\ UNCHANGED <<idleVars, rng, args>>

SpecSort == InitSort /\ [][CallSort]_vars

\* calculate_relevance(video, query)
Alphabet == {"a", "A", " "}
Strings(n) == UNION {[1..k -> Alphabet] : k \in 0..n}

InitRelevance ==
    /\ Idle
    /\ rng = 0
    /\ pc = "call"
    /\ \E q \in Strings(MaxTextLen), d \in Strings(MaxTextLen) :
         \/ \E t \in Strings(MaxTitleLen) :
               args = [video |-> [title |-> t, description |-> d], query |-> q]
         \/ args = [video |-> [description |-> d], query |-> q]

CallRelevance ==
    /\ pc = "call"
    /\ ret' = calculate_relevance(args.video, args.query)
    /\ pc' = "return"
    /\ UNCHANGED <<idleVars, rng, args>>

SpecRelevance == InitRelevance /\ [][CallRelevance]_vars

-----------------------------------------------------------------------------
(* Properties                                                              *)

\* the request did not produce a body of the documented shape: a transport
\* failure, an error status, an undecodable body, or a body whose 'videos'
\* is missing, is no list, or holds an element without the required keys
WellFormedVideo(v) ==
    /\ v.t = "obj"
    /\ {"id", "duration", "width", "height"} \subseteq DOMAIN v.v

RequestFailed(outcome) ==
    \/ outcome.kind # "response"
    \/ outcome.status \notin 200..299
    \/ ~outcome.json
    \/ outcome.body.t # "obj"
    \/ "videos" \notin DOMAIN outcome.body.v
    \/ outcome.body.v.videos.t # "list"
    \/ \E i \in 1..Len(outcome.body.v.videos.v) :
          ~WellFormedVideo(outcome.body.v.videos.v[i])

\* C1: fetch_videos never raises to its caller: for every outcome of the
\* request the call returns a value, and on every transport or validation
\* failure that value is {videos: []}.
C1_FetchNeverRaises ==
    pc = "return" =>
        /\ ret.kind = "return"
        /\ RequestFailed(args.outcome) => ret.value = [videos |-> <<>>]

\* the credential is absent or blank
MockMode ==
    \/ API_KEY.t = "null"
    \/ \A i \in 1..Len(API_KEY.v) : API_KEY.v[i] \in Whitespace

NonDecreasing(videos, field) ==
    \A i \in 1..Len(videos), j \in 1..Len(videos) :
        i < j => videos[i][field] <= videos[j][field]

NonIncreasing(videos, field) ==
    \A i \in 1..Len(videos), j \in 1..Len(videos) :
        i < j => videos[i][field] >= videos[j][field]

\* C2: in mock mode, for every script that yields at least one keyword and
\* every max_results >= 1, fetch_and_sort_videos returns exactly
\* max_results records, and with sort_by = "duration" they are in ascending
\* duration order.
C2_MockFillsQuota ==
    (/\ pc = "done"
     /\ MockMode
     /\ \E i \in 1..Len(sentences) : sentences[i] # {}
     /\ max_results >= 1)
    => /\ Len(ret.value) = max_results
       /\ sort_by = "duration" => NonDecreasing(ret.value, "duration")

\* a full mock collection of more than one page that the sort reordered
C2_Witness ==
    /\ pc = "done"
    /\ MockMode
    /\ max_results > PageCap
    /\ sort_by = "duration"
    /\ Len(ret.value) = max_results
    /\ ret.value # all_videos

\* the output holds the input's records, each once (ids are input positions)
IsRearrangement(out, in) ==
    /\ Len(out) = Len(in)
    /\ {out[i].id : i \in 1..Len(out)} = 1..Len(in)
    /\ \A i \in 1..Len(out) : out[i] = in[out[i].id]

\* records with equal keys are in their input order
KeepsInputOrder(out, field) ==
    \A i \in 1..Len(out), j \in 1..Len(out) :
        (i < j /\ out[i][field] = out[j][field]) => out[i].id < out[j].id

\* C3: sort_videos with key "duration" returns the records in
\* non-decreasing duration, with key "width" or "height" in non-increasing
\* width or height; in all three cases records with equal keys keep their
\* relative input order.
C3_SortOrderStable ==
    (pc = "return" /\ args.sort_by \in {"duration", "width", "height"})
    => /\ IsRearrangement(ret, args.videos)
       /\ KeepsInputOrder(ret, args.sort_by)
       /\ IF args.sort_by = "duration"
          THEN NonDecreasing(ret, "duration")
          ELSE NonIncreasing(ret, args.sort_by)

\* a descending sort that moved records and had a tie to keep in order
C3_Witness ==
    /\ pc = "return"
    /\ args.sort_by = "width"
    /\ Len(ret) = MaxVideos
    /\ ret # args.videos
    /\ \E i \in 1..Len(ret), j \in 1..Len(ret) :
          i < j /\ ret[i].width = ret[j].width

\* C4: every adapter call requests a page size equal to
\* min(max_results - collected, 15), where collected is the size of the
\* running collection at the moment of the call; so the requested size is
\* at least 1, at most 15 and at most the remaining quota.
C4_PageSize ==
    last_call.result # "none" =>
        LET remaining == max_results - last_call.collected
        IN /\ last_call.per_page = IF remaining < 15 THEN remaining ELSE 15
           /\ last_call.per_page >= 1
           /\ last_call.per_page <= 15
           /\ last_call.per_page <= remaining

\* a call whose remaining quota exceeded the page cap
C4_Witness ==
    /\ last_call.result # "none"
    /\ max_results - last_call.collected > 15
    /\ last_call.per_page = 15

\* the running collection holds max_results records or more
QuotaFull == Len(all_videos) >= max_results

\* this step issues an adapter call
CallIssued == last_call' # last_call

\* C5 as claimed: once the running collection has reached max_results
\* records, no further adapter call is issued and no further sentence has
\* its keywords extracted.
C5_StopsWhenFull ==
    [][QuotaFull => (~CallIssued /\ extracted' = extracted)]_vars

\* C5 as amended: once the running collection has reached max_results
\* records, no further adapter call is issued, and no sentence has its
\* keywords extracted except the first sentence of the script, which is
\* extracted before the quota is first tested (so with max_results <= 0).
C5_StopsWhenFullAfterFirst ==
    [][QuotaFull => (/\ ~CallIssued
                     /\ extracted' # extracted => extracted = 0)]_vars

\* the quota was met, or exceeded, while keywords and sentences remained
C5_Witness ==
    /\ pc = "done"
    /\ max_results >= 1
    /\ Len(all_videos) > max_results
    /\ ki < Len(keywords)
    /\ extracted < Len(sentences)

\* the place of a call in the iteration: sentence, then keyword
SameKeywordVisit(c, d) == c.sentence = d.sentence /\ c.index = d.index
LaterKeywordVisit(c, d) ==
    \/ c.sentence < d.sentence
    \/ c.sentence = d.sentence /\ c.index < d.index

\* pages run 1, 2, 3, ... within a keyword and restart at 1 for the next
PagesConsecutive(c, d) ==
    /\ c.result = "none" => d.page = 1
    /\ c.result = "videos" => SameKeywordVisit(c, d) /\ d.page = c.page + 1
    /\ c.result = "empty" => LaterKeywordVisit(c, d) /\ d.page = 1
    /\ c.result # "raise"

\* C6 as claimed: for each keyword the adapter is called with pages 1, 2,
\* 3, ... consecutively, restarting at 1 for every keyword; the first page
\* that comes back empty ends that keyword's pagination: the same keyword
\* is never fetched again, and the next call is page 1 of the next keyword.
C6_EmptyPageEndsKeyword ==
    [][CallIssued => (/\ PagesConsecutive(last_call, last_call')
                      /\ last_call'.keyword \notin ended)]_vars

\* C6 as amended: the same, except that what is never fetched again is
\* that keyword of that sentence: the next call is page 1 of the next
\* keyword in the iteration, which is the same word when a later sentence
\* yields it again.
C6_EmptyPageEndsKeywordVisit ==
    [][CallIssued => PagesConsecutive(last_call, last_call')]_vars

\* the pagination of one keyword ended on an empty page after a page of
\* videos, and the next keyword was started at page 1
C6_Witness ==
    /\ last_call.result # "none"
    /\ last_call.page = 1
    /\ last_call.collected > 0
    /\ ended # {}

\* what is left to do, compared lexicographically: sentences not yet
\* taken, keywords of the sentence not yet taken, the place in the loop
\* body, and the quota not yet filled
PcRank == [while |-> 6, after_while |-> 5, for_keyword |-> 4,
           after_keywords |-> 3, for_sentence |-> 2, sort |-> 1,
           done |-> 0, raised |-> 0]

Rank ==
    <<Len(sentences) - si,
      Len(keywords) - ki,
      PcRank[pc],
      IF max_results > Len(all_videos)
      THEN max_results - Len(all_videos) ELSE 0>>

LexLess(a, b) ==
    \E k \in 1..Len(a) :
        /\ a[k] < b[k]
        /\ \A j \in 1..(k - 1) : a[j] = b[j]

\* the function has returned or raised
Finished == pc \in {"done", "raised"}

\* the one guard of the model that is no guard of the code
WithinPages == (pc = "while" /\ Len(all_videos) < max_results)
                   => page <= MaxPages

\* C9: fetch_and_sort_videos terminates for every script, max_results and
\* adapter behaviour: each iteration of the pagination loop leaves the loop
\* or strictly increases the size of the running collection, so that the
\* loop runs at most max_results times per keyword.  Termination is stated
\* by a variant: every step lowers Rank, whose components are naturals, and
\* a step is possible in every state in which the function has not
\* finished.
C9_Terminates ==
    /\ [][LexLess(Rank', Rank)]_vars
    /\ [](\A k \in 1..Len(Rank) : Rank[k] >= 0)
    /\ [](WithinPages)
    /\ [][pc = "while" =>
            (pc' # "while" \/ Len(all_videos') > Len(all_videos))]_vars
    /\ [](last_call.result # "none" => last_call.page <= max_results)

\* a run that ended after several iterations of the loop for one keyword
C9_Witness ==
    /\ Finished
    /\ last_call.result # "none"
    /\ last_call.page >= 3

CommonResolutions == {<<1280, 720>>, <<1920, 1080>>, <<3840, 2160>>}

\* C7: in mock mode, fetch with any query, page and per_page returns
\* exactly per_page records, each with duration in [5,60] and a (width,
\* height) resolution drawn from the fixed set of common video dimension
\* pairs 1280x720, 1920x1080, 3840x2160.
C7_MockShape ==
    pc = "return" =>
        /\ Len(ret.value.videos) = args.per_page
        /\ \A i \in 1..Len(ret.value.videos) :
              LET v == ret.value.videos[i]
              IN /\ v.duration \in 5..60
                 /\ <<v.width, v.height>> \in CommonResolutions

\* the words of a str, as the places <<first, last>> of its maximal runs of
\* non-whitespace characters
WordSpans(s) ==
    {<<i, j>> \in (1..Len(s)) \X (1..Len(s)) :
        /\ i <= j
        /\ \A k \in i..j : s[k] \notin Whitespace
        /\ i = 1 \/ s[i - 1] \in Whitespace
        /\ j = Len(s) \/ s[j + 1] \in Whitespace}

\* the same character, case ignored
SameLetter(c, d) == LowerChar(c) = LowerChar(d)

\* the word s[i..j] holds the whole of q, case ignored
SpanHolds(s, span, q) ==
    \E at \in span[1]..(span[2] + 1 - Len(q)) :
        \A k \in 1..Len(q) : SameLetter(s[at + k - 1], q[k])

MatchingWords(s, q) ==
    Cardinality({span \in WordSpans(s) : SpanHolds(s, span, q)})

\* C8: calculate_relevance returns 0.6*a + 0.4*b (here 6*a + 4*b tenths),
\* where a is the number of whitespace-delimited words of the title whose
\* lowercase form contains the whole lowercase query and b the same count
\* over the description; a record whose every title word contains the
\* query and whose description has no words scores 0.6 times the number of
\* title words.
C8_RelevanceFormula ==
    pc = "return" =>
        LET title == IF "title" \in DOMAIN args.video
                     THEN args.video.title ELSE <<>>
            a == MatchingWords(title, args.query)
            b == MatchingWords(args.video.description, args.query)
        IN /\ ret = 6 * a + 4 * b
           /\ (/\ a = Cardinality(WordSpans(title))
               /\ WordSpans(args.video.description) = {})
              => ret = 6 * Cardinality(WordSpans(title))

\* a title of two words of which one matches only when case is ignored,
\* and a description that matches
C8_Witness ==
    /\ pc = "return"
    /\ "title" \in DOMAIN args.video
    /\ Cardinality(WordSpans(args.video.title)) = 2
    /\ args.query = <<"a">>
    /\ "A" \in Range(args.video.title)
    /\ ret = 16

\* every record's relevance score against the ranker's query is 0
AllScoresZero ==
    \A i \in 1..Len(all_videos) :
        calculate_relevance(all_videos[i], QueryContext(all_keywords)) = 0

\* C10 as claimed: when the script yields two or more distinct keywords,
\* every record's relevance score is 0 and, with sort_by "relevance" or an
\* unrecognized key, the returned list is the running collection in the
\* order the records were fetched.
C10_ManyKeywordsNoRanking ==
    (/\ pc = "done"
     /\ Cardinality(UNION Range(sentences)) >= 2
     /\ sort_by \notin {"duration", "width", "height"})
    => AllScoresZero /\ ret.value = all_videos

\* C10 as amended: the same, when the sentences processed before the
\* iteration stopped yield two or more distinct keywords (the keywords
\* accumulated at line 212, which leave out the sentences after the quota
\* was reached).
C10_ManyAccumulatedKeywordsNoRanking ==
    (/\ pc = "done"
     /\ Len(all_keywords) >= 2
     /\ sort_by \notin {"duration", "width", "height"})
    => AllScoresZero /\ ret.value = all_videos

\* a two-keyword query, and records a one-keyword query would have reordered
C10_Witness ==
    /\ pc = "done"
    /\ Len(all_keywords) >= 2
    /\ sort_by = "relevance"
    /\ ~MockMode
    /\ Len(all_videos) >= 2
    /\ sort_videos(all_videos, "relevance", all_keywords[1]) # all_videos

====
